---- MODULE Spec2Model ----
(***************************************************************************)
(* gpio-watch (src/main.c): the monitor loop watch_pins() and the handler  *)
(* dispatch run_script().                                                  *)
(*                                                                         *)
(* One state machine: the startup loop that opens one value handle per pin,*)
(* the poll() wake, the for-loop over the pin table, and the synchronous   *)
(* fork/exec/wait of the event script.  The environment (readiness, the    *)
(* value a read returns, the monotonic clock, whether a script file exists,*)
(* whether fork() succeeds, how a script ends) is chosen nondeterministically.*)
(***************************************************************************)
EXTENDS Integers, Sequences, FiniteSets, TLC

(* ---------------------------- bounds ---------------------------------- *)

\* The monotonic clock (whole seconds, ts.tv_sec) runs from 0 to MaxTime.
MaxTime == 2

(* ------------------------ program constants --------------------------- *)

\* main.c:166 and main.c:172: "now - down_at[i] > 1".
DebounceWindow == 1

\* main.c:93: exit(255) when execl() fails in the child.
ExecFailStatus == 255

\* main.c:150: exit(1) after a failed poll().
PollFailExit == 1

\* main.c:48 (DEFAULT_SCRIPT_DIR, main.c:45).
script_dir == "/etc/gpio-scripts"

(* ------------------------- the pin tables ----------------------------- *)

\* struct pin {pin, edge} as filled by main() (main.c:240-267).  The tables
\* are those of the specification's scenarios: [4, 17:switch] and [3, 9].
Tables ==
  { << [pin |-> 4, edge |-> "both"],   [pin |-> 17, edge |-> "switch"] >>,
    << [pin |-> 3, edge |-> "rising"], [pin |-> 9,  edge |-> "falling"] >> }

\* main.c:270: the ids probed for a script when no pin is given.
ProbeLimit == 32

\* The sets of ids in 0 .. ProbeLimit-1 that have a script file in
\* script_dir, as considered: none, and pin 17 alone.
ProbeFinds == { {}, {17} }

\* main.c:278-280 store the id found and no edge mode: what the edge field
\* of a probed pin may hold, the 'switch' mode or a mode handled as raw.
UninitEdges == {"both", "switch"}

\* What an uninitialised long long of down_at[] (main.c:122) may hold,
\* relative to the clock's range: far in the past, inside it, far ahead.
Far == MaxTime + 2
Uninit == {0 - Far, 0, Far}

\* What a read of a gpio value file delivers into valbuf[0]; "none" is a
\* read that returned no data (error or 0 bytes) and left valbuf untouched.
ReadResults == {"0", "1", "none"}

\* The ways an event script can end, as reported by wait().
Outcomes ==
  { [kind |-> "exited", n |-> 0], [kind |-> "exited", n |-> 7],
    [kind |-> "exited", n |-> ExecFailStatus], [kind |-> "signaled", n |-> 9] }

\* An int status that wait() never wrote (main.c:69, main.c:96 after a
\* failed fork): any bit pattern, so any outcome or neither.
UninitStatus == Outcomes \cup { [kind |-> "other", n |-> 0] }

VARIABLES
  pins,          \* the pin table (main.c:55), fixed by main()
  pc,            \* "main" | "open" | "poll" | "loop" | "wait" | "exited"
  i,             \* loop index of watch_pins (1-based)
  fd,            \* fdlist[k].fd: "unset" | "ok" | "bad" (-1)
  revents,       \* fdlist[k].revents & POLLPRI
  valbuf,        \* valbuf[0]: "0" | "1" | "?" (uninitialised)
  switch_state,  \* switch_state[k]
  down_at,       \* down_at[k]
  clock,         \* CLOCK_MONOTONIC, whole seconds
  children,      \* the running child processes of the monitor; image is
                 \* "monitor" after fork(), "script" after execl()
  exit_status,   \* the monitor's exit status, -1 while it runs
  \* history variables
  ev,            \* what the latest step did
  out,           \* the log lines the latest step wrote
  src,           \* table position whose read last filled valbuf, 0: none
  nconf,         \* per pin: confirmed transitions so far, counted up to 2
  conf_at,       \* per pin: clock at its latest confirmed transition
  bounce,        \* per pin: progress through "confirmed 1, then 1, 0, 1
                 \* suppressed inside the debounce window" (0 .. 4)
  failed,        \* pins whose script has ended other than with status 0
  wake,          \* run_script calls, spawns and exits of the current wake
  last_val,      \* per pin: the value of its latest fired event, -1: none
  line           \* per 'switch' pin: the level its latest read in the
                 \* wait loop returned, "?": none read, or no data

vars == << pins, pc, i, fd, revents, valbuf, switch_state, down_at, clock,
           children, exit_status, ev, out, src, nconf, conf_at, bounce, failed, wake,
           last_val, line >>

num_pins == Len(pins)
Idx == 1 .. num_pins

(* --------------------------- formatting ------------------------------- *)

DigitChars == << "0", "1", "2", "3", "4", "5", "6", "7", "8", "9" >>

\* printf("%d") of a non-negative int.
RECURSIVE Decimal(_)
Decimal(n) ==
  IF n < 10 THEN DigitChars[n + 1]
  ELSE Decimal(n \div 10) \o DigitChars[(n % 10) + 1]

\* main.c:76-77: snprintf(script_path, ..., "%s/%d", script_dir, pin).
ScriptPath(pin) == script_dir \o "/" \o Decimal(pin)

\* main.c:85: snprintf(pin_str, GPIODIRLEN, "%d", pin).
PinStr(pin) == Decimal(pin)

\* main.c:86: sprintf(value_str, "%d", value).
ValueStr(value) == Decimal(value)

\* A variant of Argv that passes the value before the pin.
ArgvSwapped(pin, value) == << ScriptPath(pin), ValueStr(value), PinStr(pin) >>

\* main.c:92: execl(script_path, script_path, pin_str, value_str, NULL).
Argv(pin, value) == << ScriptPath(pin), PinStr(pin), ValueStr(value) >>

(* ------------------------ the per-pin policy -------------------------- *)

\* A variant of Gate that accepts at exactly one window of elapsed time.
GateAtWindow(now, last) == now - last >= DebounceWindow

\* main.c:166, main.c:172: the debounce gate.
Gate(now, last) == now - last > DebounceWindow

\* A variant of SwitchDecision that never confirms a release.
SwitchDecisionNoRelease(state, raw, now, last) ==
  IF state = 0 /\ raw = "1" /\ Gate(now, last)
    THEN [fire |-> TRUE, value |-> 1, state |-> 1, down |-> now]
  ELSE [fire |-> FALSE, value |-> 0, state |-> state, down |-> last]

\* A variant of SwitchDecision that does not compare with the confirmed
\* state: any raw value that passes the gate is taken as a transition.
SwitchDecisionNoState(state, raw, now, last) ==
  IF raw = "1" /\ Gate(now, last)
    THEN [fire |-> TRUE, value |-> 1, state |-> 1, down |-> now]
  ELSE IF raw = "0" /\ Gate(now, last)
    THEN [fire |-> TRUE, value |-> 0, state |-> 0, down |-> now]
  ELSE [fire |-> FALSE, value |-> 0, state |-> state, down |-> last]

\* A variant of SwitchDecision that runs the script without recording the
\* new confirmed state.
SwitchDecisionKeepsState(state, raw, now, last) ==
  IF state = 0 /\ raw = "1" /\ Gate(now, last)
    THEN [fire |-> TRUE, value |-> 1, state |-> state, down |-> now]
  ELSE IF state = 1 /\ raw = "0" /\ Gate(now, last)
    THEN [fire |-> TRUE, value |-> 0, state |-> state, down |-> now]
  ELSE [fire |-> FALSE, value |-> 0, state |-> state, down |-> last]

\* A variant of SwitchDecision that does not stamp the time of the
\* confirmed transition.
SwitchDecisionNoStamp(state, raw, now, last) ==
  IF state = 0 /\ raw = "1" /\ Gate(now, last)
    THEN [fire |-> TRUE, value |-> 1, state |-> 1, down |-> last]
  ELSE IF state = 1 /\ raw = "0" /\ Gate(now, last)
    THEN [fire |-> TRUE, value |-> 0, state |-> 0, down |-> last]
  ELSE [fire |-> FALSE, value |-> 0, state |-> state, down |-> last]

\* main.c:165-177: the 'switch' branch; what to set and whether to run.
SwitchDecision(state, raw, now, last) ==
  IF state = 0 /\ raw = "1" /\ Gate(now, last)
    THEN [fire |-> TRUE, value |-> 1, state |-> 1, down |-> now]
  ELSE IF state = 1 /\ raw = "0" /\ Gate(now, last)
    THEN [fire |-> TRUE, value |-> 0, state |-> 0, down |-> now]
  ELSE [fire |-> FALSE, value |-> 0, state |-> state, down |-> last]

\* A variant of RawDecision that runs the script for a raw 1 only.
RawDecisionOnesOnly(state, raw, now, last) ==
  [fire |-> raw = "1", value |-> 1, state |-> state, down |-> last]

\* main.c:180: every other edge mode runs the script with the raw value.
RawDecision(state, raw, now, last) ==
  [fire |-> TRUE, value |-> IF raw = "1" THEN 1 ELSE 0,
   state |-> state, down |-> last]

\* main.c:161-181.
Decide(edge, state, raw, now, last) ==
  IF edge = "switch" THEN SwitchDecision(state, raw, now, last)
  ELSE RawDecision(state, raw, now, last)

(* ------------------------------ logging ------------------------------- *)

\* main.c:80: LOG_WARN("pin %d: script \"%s\" does not exist").
WarnMissing(pin) ==
  [lvl |-> "warn", what |-> "missing", pin |-> pin, n |-> 0]

\* main.c:88: LOG_INFO("pin %d: running script %s").
InfoRunning(pin) ==
  [lvl |-> "info", what |-> "running", pin |-> pin, n |-> 0]

\* A variant of StatusLog without the WIFSIGNALED branch.
StatusLogExitOnly(pin, st) ==
  IF st.kind = "exited" /\ st.n # 0
    THEN << [lvl |-> "warn", what |-> "status", pin |-> pin, n |-> st.n] >>
    ELSE << >>

\* main.c:98-106: the report of a wait status.
StatusLog(pin, st) ==
  IF st.kind = "exited" THEN
    IF st.n # 0
      THEN << [lvl |-> "warn", what |-> "status", pin |-> pin, n |-> st.n] >>
      ELSE << >>
  ELSE IF st.kind = "signaled"
    THEN << [lvl |-> "warn", what |-> "signal", pin |-> pin, n |-> st.n] >>
  ELSE << >>

\* main.c:155: LOG_DEBUG("pin %d: received event").
DebugEvent(pin) ==
  [lvl |-> "debug", what |-> "event", pin |-> pin, n |-> 0]

(* ------------------------- history helpers ---------------------------- *)

NoStatus == [kind |-> "none", n |-> 0]

NoEv == [kind |-> "none", idx |-> 0, raw |-> "?", got |-> FALSE,
         fire |-> FALSE, value |-> 0, exists |-> FALSE, forked |-> FALSE,
         st |-> NoStatus, pre_state |-> 0, pre_down |-> 0, now |-> 0,
         pre_buf |-> "?", pre_src |-> 0, pre_nconf |-> 0, pre_conf |-> 0,
         pre_bounce |-> 0, note |-> "", pre_last |-> 0 - 1]

\* The raw values of the bounces that follow a confirmed transition to 1
\* in the specification's scenario 1,1,0,1.
BouncePattern == << "1", "0", "1" >>

\* Progress through the scenario after one more observation of the pin:
\* 1 when a transition to 1 is confirmed; one further for each bounce of
\* the pattern that arrives inside the window and is suppressed; else 0.
BounceStep(p, raw, fired, value, now, last) ==
  IF fired THEN (IF value = 1 THEN 1 ELSE 0)
  ELSE IF p \in 1 .. 3 /\ raw = BouncePattern[p]
          /\ now - last <= DebounceWindow
    THEN p + 1
  ELSE 0

\* Counting up to 2.
Count2(n) == IF n < 2 THEN n + 1 ELSE 2

(* ------------------------------ main() -------------------------------- *)

\* main.c:269-283: the table probing builds from id n on: one entry per id
\* that has a script file, in ascending order.
RECURSIVE ProbeFrom(_, _, _)
ProbeFrom(n, found, edges) ==
  IF n >= ProbeLimit THEN << >>
  ELSE (IF n \in found THEN << [pin |-> n, edge |-> edges[n]] >> ELSE << >>)
         \o ProbeFrom(n + 1, found, edges)

\* main.c:240-283: the pin table main() hands to watch_pins(): the pins
\* given as arguments, or, when there are none, the pins found by probing.
FinalTable(args, found, edges) ==
  IF Len(args) # 0 THEN args ELSE ProbeFrom(0, found, edges)

(* ------------------------------ Init ---------------------------------- *)

\* main() has parsed its arguments and built the pin table (main.c:186-283).
\* The locals of watch_pins() are given the values they have on entry
\* (main.c:113-128): switch_state zeroed by memset, down_at and valbuf not
\* initialised.  down_at[k] of a pin that is not a
\* 'switch' pin is never read or written, so one value stands for it.
Init ==
  /\ \E args \in Tables \cup { << >> }, found \in ProbeFinds :
       \E edges \in [found -> UninitEdges] :
         pins = FinalTable(args, found, edges)
  /\ pc = "main"
  /\ i = 1
  /\ fd = [k \in Idx |-> "unset"]
  /\ revents = [k \in Idx |-> FALSE]
  /\ valbuf \in {"0", "1", "?"}
  /\ switch_state = [k \in Idx |-> 0]
  /\ down_at \in { f \in [Idx -> Uninit] :
                     \A k \in Idx : pins[k].edge # "switch" => f[k] = 0 }
  /\ clock = 0
  /\ children = {}
  /\ exit_status = -1
  /\ ev = NoEv
  /\ out = << >>
  /\ src = 0
  /\ nconf = [k \in Idx |-> 0]
  /\ conf_at = [k \in Idx |-> 0]
  /\ bounce = [k \in Idx |-> 0]
  /\ failed = {}
  /\ wake = << >>
  /\ last_val = [k \in Idx |-> 0 - 1]
  /\ line = [k \in Idx |-> "?"]

(* ----------------------------- actions -------------------------------- *)

\* A variant of NextPos for a for-loop that does not step.
NextPosStuck(k) == k

\* main.c:153, main.c:183-184: the for-loop's step and the return to poll().
NextPos(k) == k + 1

Advance(k) ==
  IF NextPos(k) > num_pins
    THEN /\ pc' = "poll"
         /\ i' = 1
    ELSE /\ pc' = "loop"
         /\ i' = NextPos(k)

\* main.c:285-293, main.c:113-131: the pins are exported and watch_pins()
\* is called, whatever num_pins is.  With no pin its open loop is empty
\* and it goes straight to poll(fdlist, 0, -1).
StartWatch ==
  /\ pc = "main"
  /\ pc' = IF num_pins = 0 THEN "poll" ELSE "open"
  /\ i' = 1
  /\ ev' = [NoEv EXCEPT !.kind = "start"]
  /\ out' = << >>
  /\ UNCHANGED << pins, fd, revents, valbuf, switch_state, down_at, clock,
                  children, exit_status, src, nconf, conf_at, bounce, failed,
                  wake, last_val, line >>

\* main.c:131-140: open the value file of pins[i], read it once, store the
\* descriptor.  Neither result is checked.
OpenPin ==
  /\ pc = "open"
  /\ \E ok \in BOOLEAN, data \in ReadResults :
       /\ fd' = [fd EXCEPT ![i] = IF ok THEN "ok" ELSE "bad"]
       /\ valbuf' = IF ok /\ data # "none" THEN data ELSE valbuf
       /\ ev' = [NoEv EXCEPT !.kind = "open", !.idx = i,
                             !.got = ok /\ data # "none"]
  /\ IF i < num_pins
       THEN /\ pc' = "open"
            /\ i' = i + 1
       ELSE /\ pc' = "poll"
            /\ i' = 1
  /\ out' = << >>
  /\ UNCHANGED << pins, revents, switch_state, down_at, clock, children,
                  exit_status, src, nconf, conf_at, bounce, failed, wake >>
  /\ UNCHANGED << last_val, line >>

\* The clock advances.
Tick ==
  /\ pc \notin {"main", "exited"}
  /\ clock < MaxTime
  /\ clock' = clock + 1
  /\ ev' = NoEv
  /\ out' = << >>
  /\ UNCHANGED << pins, pc, i, fd, revents, valbuf, switch_state, down_at,
                  children, exit_status, src, nconf, conf_at, bounce, failed, wake >>
  /\ UNCHANGED << last_val, line >>

\* main.c:147: poll() returns with at least one descriptor ready.  A
\* negative descriptor is ignored by poll().
PollWake ==
  /\ pc = "poll"
  /\ \E R \in (SUBSET { k \in Idx : fd[k] = "ok" }) \ { {} } :
       revents' = [k \in Idx |-> k \in R]
  /\ pc' = "loop"
  /\ i' = 1
  /\ wake' = << >>
  /\ ev' = [NoEv EXCEPT !.kind = "poll"]
  /\ out' = << >>
  /\ UNCHANGED << pins, fd, valbuf, switch_state, down_at, clock, children,
                  exit_status, src, nconf, conf_at, bounce, failed >>
  /\ UNCHANGED << last_val, line >>

\* A variant of Ready that takes every line of the table as ready.
ReadyAlways(k) == TRUE

\* main.c:154: fdlist[i].revents & POLLPRI.
Ready(k) == revents[k]

\* main.c:148-151: poll() returned -1, whatever errno says.
PollError(errno) == PollFailExit

PollFail ==
  /\ pc = "poll"
  /\ \E errno \in {"EINTR", "ENOMEM"} :
       /\ exit_status' = PollError(errno)
       /\ ev' = [NoEv EXCEPT !.kind = "pollfail", !.raw = errno]
  /\ pc' = "exited"
  /\ out' = << [lvl |-> "perror", what |-> "poll", pin |-> 0, n |-> 0] >>
  /\ UNCHANGED << pins, i, fd, revents, valbuf, switch_state, down_at, clock,
                  children, wake, src, nconf, conf_at, bounce, failed >>
  /\ UNCHANGED << last_val, line >>

\* main.c:154: pins[i] is not ready.
SkipPin ==
  /\ pc = "loop"
  /\ ~ Ready(i)
  /\ Advance(i)
  /\ ev' = [NoEv EXCEPT !.kind = "skip", !.idx = i]
  /\ out' = << >>
  /\ UNCHANGED << pins, fd, revents, valbuf, switch_state, down_at, clock,
                  children, exit_status, src, nconf, conf_at, bounce, failed, wake >>
  /\ UNCHANGED << last_val, line >>

\* A variant of WaitBlocks that never blocks (a wait that does not wait).
WaitNever(running) == FALSE

\* main.c:96: wait(&status) blocks while the monitor has a running child
\* and fails at once (ECHILD) when it has none.
WaitBlocks(running) == running # {}

\* A variant of RunScript without the is_file() test: a missing script is
\* forked for like an existing one.
RunScriptNoCheck(k, pin, value, exists, forked, junk) ==
  IF forked \/ ~ exists
    THEN [spawned |-> { [idx |-> k, pin |-> pin, argv |-> Argv(pin, value),
                         image |-> "monitor"] },
          waits |-> TRUE, st |-> NoStatus,
          log |-> << InfoRunning(pin) >>]
  ELSE [spawned |-> {}, waits |-> TRUE, st |-> junk,
        log |-> << InfoRunning(pin) >> \o StatusLog(pin, junk)]

\* A variant of RunScript that forks and returns without wait().
RunScriptNoWait(k, pin, value, exists, forked, junk) ==
  IF ~ exists
    THEN [spawned |-> {}, waits |-> FALSE, st |-> NoStatus,
          log |-> << WarnMissing(pin) >>]
  ELSE IF forked
    THEN [spawned |-> { [idx |-> k, pin |-> pin, argv |-> Argv(pin, value),
                         image |-> "monitor"] },
          waits |-> FALSE, st |-> NoStatus,
          log |-> << InfoRunning(pin) >>]
  ELSE [spawned |-> {}, waits |-> FALSE, st |-> junk,
        log |-> << InfoRunning(pin) >> \o StatusLog(pin, junk)]

\* main.c:63-110, up to the wait(): the outcome of run_script(pin, value)
\* called for table position k.  exists is is_file(script_path), forked is
\* whether fork() made a child, junk is the status wait() leaves unwritten
\* when there is no child to wait for.
RunScript(k, pin, value, exists, forked, junk) ==
  IF ~ exists
    THEN [spawned |-> {}, waits |-> FALSE, st |-> NoStatus,
          log |-> << WarnMissing(pin) >>]
  ELSE IF forked
    THEN [spawned |-> { [idx |-> k, pin |-> pin, argv |-> Argv(pin, value),
                         image |-> "monitor"] },
          waits |-> TRUE, st |-> NoStatus,
          log |-> << InfoRunning(pin) >>]
  ELSE [spawned |-> {}, waits |-> TRUE, st |-> junk,
        log |-> << InfoRunning(pin) >> \o StatusLog(pin, junk)]

\* The value of valbuf[0] after read(fd, valbuf, 2) (main.c:158).
AfterRead(buf, data) == IF data = "none" THEN buf ELSE data

\* main.c:154-182: pins[i] is ready: seek, read, decide, run the script up
\* to the point where the monitor blocks in wait() or run_script returns.
ProcessPin ==
  /\ pc = "loop"
  /\ Ready(i)
  /\ \E data \in ReadResults :
       LET pin == pins[i].pin
           sw  == pins[i].edge = "switch"
           raw == AfterRead(valbuf, data)
           now == clock
           d   == Decide(pins[i].edge, switch_state[i], raw, now, down_at[i])
       IN
       \E exists \in (IF d.fire THEN BOOLEAN ELSE {FALSE}) :
       \E forked \in (IF exists THEN BOOLEAN ELSE {FALSE}) :
       \E junk \in (IF exists /\ ~ forked THEN UninitStatus ELSE {NoStatus}) :
         LET r    == RunScript(i, pin, d.value, exists, forked, junk)
             kids == IF d.fire THEN children \cup r.spawned ELSE children
             blk  == d.fire /\ r.waits /\ WaitBlocks(kids)
         IN
         /\ valbuf' = raw
         /\ switch_state' = [switch_state EXCEPT ![i] = d.state]
         /\ down_at' = [down_at EXCEPT ![i] = d.down]
         /\ children' = kids
         /\ IF blk THEN pc' = "wait" /\ i' = i ELSE Advance(i)
         /\ out' = << DebugEvent(pin) >> \o (IF d.fire THEN r.log ELSE << >>)
         /\ ev' = [kind |-> "event", idx |-> i, raw |-> raw,
                   got |-> data # "none", fire |-> d.fire,
                   value |-> d.value,
                   exists |-> exists,
                   forked |-> d.fire /\ r.spawned # {},
                   st |-> IF d.fire THEN r.st ELSE NoStatus,
                   pre_state |-> switch_state[i],
                   pre_down |-> down_at[i],
                   now |-> IF sw THEN now ELSE 0,
                   pre_buf |-> valbuf, pre_src |-> src,
                   pre_nconf |-> nconf[i], pre_conf |-> conf_at[i],
                   pre_bounce |-> bounce[i], note |-> "",
                   pre_last |-> last_val[i]]
         /\ last_val' = [last_val EXCEPT ![i] =
                           IF d.fire THEN d.value ELSE @]
         /\ line' = [line EXCEPT ![i] =
                       IF ~ sw THEN @
                       ELSE IF data = "none" THEN "?" ELSE data]
         /\ src' = IF data = "none" THEN src ELSE i
         /\ nconf' = [nconf EXCEPT ![i] =
                        IF sw /\ d.fire THEN Count2(@) ELSE @]
         /\ conf_at' = [conf_at EXCEPT ![i] =
                          IF sw /\ d.fire THEN now ELSE @]
         /\ bounce' = [bounce EXCEPT ![i] =
                         IF sw THEN BounceStep(@, raw, d.fire, d.value,
                                               now, down_at[i])
                         ELSE @]
         /\ wake' = wake
              \o << [e |-> "event", idx |-> i] >>
              \o (IF d.fire THEN << [e |-> "call", idx |-> i] >> ELSE << >>)
              \o (IF d.fire /\ r.spawned # {}
                    THEN << [e |-> "spawn", idx |-> i] >> ELSE << >>)
  /\ UNCHANGED << pins, fd, revents, clock, exit_status, failed >>

\* main.c:96-110: wait() hands the status st of the ended child c to the
\* monitor blocked in it; run_script reports it (main.c:98-106) and returns
\* into the for-loop.  A child that ends while the monitor is not in wait()
\* only disappears.
Reap(c, st, why) ==
  /\ children' = children \ {c}
  /\ IF pc = "wait"
       THEN /\ Advance(i)
            /\ out' = StatusLog(pins[i].pin, st)
            /\ ev' = [NoEv EXCEPT !.kind = "reap", !.idx = i, !.st = st,
                                  !.note = why]
            /\ wake' = Append(wake, [e |-> "exit", idx |-> c.idx])
       ELSE /\ UNCHANGED << pc, i, wake >>
            /\ out' = << >>
            /\ ev' = NoEv
  /\ failed' = IF st = [kind |-> "exited", n |-> 0]
                  THEN failed ELSE failed \cup {c.idx}

\* A variant of ExecFailed without the exit(255): the child falls out of
\* the if and runs on in the monitor's code.
ExecFailedFallsThrough(c) ==
  [exits |-> FALSE, st |-> [kind |-> "exited", n |-> ExecFailStatus]]

\* main.c:92-93: execl() returned -1 in the child: exit(255).
ExecFailed(c) ==
  [exits |-> TRUE, st |-> [kind |-> "exited", n |-> ExecFailStatus]]

\* main.c:90-93: the forked child calls execl(): it becomes the script, or
\* execl() fails.
ChildExec ==
  /\ \E c \in children, ok \in BOOLEAN :
       /\ c.image = "monitor"
       /\ IF ok
            THEN /\ children' = (children \ {c})
                                  \cup { [c EXCEPT !.image = "script"] }
                 /\ ev' = [NoEv EXCEPT !.kind = "exec", !.idx = c.idx]
                 /\ out' = << >>
                 /\ UNCHANGED << pc, i, wake, failed >>
            ELSE LET r == ExecFailed(c)
                 IN  IF r.exits
                       THEN Reap(c, r.st, "execl")
                       ELSE /\ children' = (children \ {c})
                                  \cup { [c EXCEPT !.image = "returned"] }
                            /\ ev' = [NoEv EXCEPT !.kind = "exec",
                                                  !.idx = c.idx]
                            /\ out' = << >>
                            /\ UNCHANGED << pc, i, wake, failed >>
  /\ UNCHANGED << pins, fd, revents, valbuf, switch_state, down_at, clock,
                  exit_status, src, nconf, conf_at, bounce >>
  /\ UNCHANGED << last_val, line >>

\* The script of a child ends (exit or signal) and the child is reaped.
ChildEnd ==
  /\ \E c \in children, st \in Outcomes :
       /\ c.image = "script"
       /\ Reap(c, st, "script")
  /\ UNCHANGED << pins, fd, revents, valbuf, switch_state, down_at, clock,
                  exit_status, src, nconf, conf_at, bounce >>
  /\ UNCHANGED << last_val, line >>

Next ==
  \/ StartWatch
  \/ OpenPin
  \/ Tick
  \/ PollWake
  \/ PollFail
  \/ SkipPin
  \/ ProcessPin
  \/ ChildExec
  \/ ChildEnd

Spec == Init /\ [][Next]_vars

\* The monitor's own steps are taken whenever they can be (the process is
\* scheduled), and a forked child eventually calls execl() and its script
\* eventually ends.  That poll() returns at all is left to the environment.
FairSpec ==
  /\ Spec
  /\ WF_vars(StartWatch)
  /\ WF_vars(OpenPin)
  /\ WF_vars(SkipPin)
  /\ WF_vars(ProcessPin)
  /\ WF_vars(ChildExec)
  /\ WF_vars(ChildEnd)
(* ====================================================================== *)
(* Properties                                                             *)
(* ====================================================================== *)

\* The latest step processed a readiness event of a pin in 'switch' mode /
\* in another edge mode.
SwitchEvent == ev.kind = "event" /\ pins[ev.idx].edge = "switch"
RawEvent == ev.kind = "event" /\ pins[ev.idx].edge # "switch"

\* Entries of the current wake's trace.
WakeCount(what, k) ==
  Cardinality({ n \in DOMAIN wake : wake[n] = [e |-> what, idx |-> k] })

\* The confirmed state as the raw character that stands for it.
StateChar(b) == IF b = 1 THEN "1" ELSE "0"

\* Every spawn recorded in the current wake is directly followed by the
\* exit of the same child, or is the last entry while the monitor waits.
SpawnsAreWaitedFor ==
  \A n \in DOMAIN wake :
    wake[n].e = "spawn" =>
      IF n = Len(wake)
        THEN pc = "wait" /\ i = wake[n].idx
        ELSE wake[n + 1] = [e |-> "exit", idx |-> wake[n].idx]

(* C1: For every pin whose edge mode is not 'switch', each readiness event
   of a wake results in exactly one run_script call for that pin, carrying
   the raw value just read ('1' -> 1, anything else -> 0), whether or not
   the value repeats the previous one and whatever the clock says; the
   per-pin switch memory neither influences the step nor is changed. *)
C1_RawEventAlwaysFires ==
  RawEvent =>
    /\ ev.fire
    /\ WakeCount("call", ev.idx) = 1
    /\ WakeCount("event", ev.idx) = 1
    /\ ev.raw = valbuf
    /\ ev.got => src = ev.idx
    /\ ev.value = (IF ev.raw = "1" THEN 1 ELSE 0)
    /\ \A c \in children : c.idx = ev.idx => c.argv[3] = StateChar(ev.value)
    /\ switch_state[ev.idx] = ev.pre_state
    /\ down_at[ev.idx] = ev.pre_down

\* C1 witness: a raw event whose freshly read value repeats the value read
\* from the same pin just before, at a later clock value, and runs.
C1_Witness ==
  /\ RawEvent
  /\ ev.got
  /\ ev.pre_src = ev.idx
  /\ ev.pre_buf = ev.raw
  /\ ev.fire
  /\ ev.forked
  /\ clock > 0

(* C2: For a 'switch' pin in its initial state (confirmed state 0, no
   transition confirmed before), the raw sequence 1,1,0,1 whose last three
   values arrive within the debounce window after the first 1 yields exactly
   one run_script call: the first 1 is confirmed and runs with value 1, the
   three following observations run nothing. *)
C2_FreshScenarioFiresOnce ==
  SwitchEvent =>
    /\ (ev.pre_nconf = 0 /\ ev.got /\ ev.raw = "1")
         => (ev.fire /\ ev.value = 1)
    /\ ( /\ ev.pre_nconf = 1
         /\ ev.pre_bounce \in 1 .. 3
         /\ ev.raw = BouncePattern[ev.pre_bounce]
         /\ ev.now - ev.pre_conf <= DebounceWindow ) => ~ ev.fire

(* C3 as stated: on a 'switch' pin with a confirmed transition to 1 whose
   following bounces 1,0,1 inside the debounce window were suppressed, a raw
   1 observed after the window has elapsed yields a second confirmed
   run_script call. *)
C3_LateOneFiresAgain ==
  ( /\ SwitchEvent
    /\ ev.pre_bounce = 4
    /\ ev.got
    /\ ev.raw = "1"
    /\ ev.now - ev.pre_conf > DebounceWindow ) => ev.fire

(* C3 amended: after a confirmed transition to 1 and the suppressed bounces
   1,0,1 inside the window, an observation made after the window has
   elapsed yields a second confirmed run_script call exactly when its raw
   value is 0 (it then runs with value 0 and the confirmed state becomes 0);
   a raw 1 equals the confirmed state and runs nothing. *)
C3_LateZeroFiresAgain ==
  ( /\ SwitchEvent
    /\ ev.pre_bounce = 4
    /\ ev.now - ev.pre_conf > DebounceWindow ) =>
      /\ ev.pre_state = 1
      /\ ev.raw = "0" => ( /\ ev.fire
                           /\ ev.value = 0
                           /\ switch_state[ev.idx] = 0
                           /\ WakeCount("call", ev.idx) = 1 )
      /\ ev.raw = "1" => ( /\ ~ ev.fire
                           /\ switch_state[ev.idx] = 1
                           /\ WakeCount("call", ev.idx) = 0 )

\* C3 witness: the late observation after the suppressed bounces is a 0
\* and is confirmed.
C3_Witness ==
  /\ SwitchEvent
  /\ ev.pre_bounce = 4
  /\ ev.now - ev.pre_conf > DebounceWindow
  /\ ev.raw = "0"
  /\ ev.fire
  /\ ev.pre_nconf = 1

(* C4: On a 'switch' pin, a readiness event whose raw value equals the
   confirmed state never calls run_script and changes neither the confirmed
   state nor the time of the last transition, whatever time has elapsed;
   only an observation that differs from the confirmed state and passes the
   debounce gate runs the script. *)
C4_SameValueNeverFires ==
  SwitchEvent =>
    /\ ev.raw = StateChar(ev.pre_state) =>
         /\ ~ ev.fire
         /\ WakeCount("call", ev.idx) = 0
         /\ switch_state[ev.idx] = ev.pre_state
         /\ down_at[ev.idx] = ev.pre_down
         /\ conf_at[ev.idx] = ev.pre_conf
         /\ \A c \in children : c.idx # ev.idx
    /\ ev.fire =>
         /\ ev.raw \in {"0", "1"}
         /\ ev.raw # StateChar(ev.pre_state)
         /\ ev.now - ev.pre_down > DebounceWindow

\* C4 witness: a raw 1 on a pin confirmed at 1, observed after the window
\* has elapsed, is discarded.
C4_Witness ==
  /\ SwitchEvent
  /\ ev.pre_state = 1
  /\ ev.raw = "1"
  /\ ev.got
  /\ ev.now - ev.pre_conf > DebounceWindow
  /\ ~ ev.fire

(* C5: On a 'switch' pin with a confirmed transition behind it, a raw value
   that differs from the confirmed state is accepted as a confirmed
   transition if and only if the whole-second clock has advanced by more
   than the debounce window (1) since that pin's last confirmed transition;
   so two consecutive confirmed transitions of a pin are more than 1 apart,
   and a change arriving less than one unit after the last one is
   rejected. *)
C5_GateIsElapsedOverWindow ==
  (SwitchEvent /\ ev.pre_nconf >= 1) =>
    /\ ev.pre_down = ev.pre_conf
    /\ ev.raw \in {"0", "1"} \ {StateChar(ev.pre_state)} =>
         (ev.fire <=> ev.now - ev.pre_conf > 1)
    /\ ev.fire => ( /\ ev.now - ev.pre_conf >= 2
                    /\ conf_at[ev.idx] = ev.now
                    /\ down_at[ev.idx] = ev.now )
    /\ (~ ev.fire) => ( /\ conf_at[ev.idx] = ev.pre_conf
                        /\ down_at[ev.idx] = ev.pre_conf )

\* C5 witness: a second confirmed transition of a pin, two clock units
\* after the first.
C5_Witness ==
  /\ SwitchEvent
  /\ ev.pre_nconf = 1
  /\ ev.fire
  /\ ev.value = 0
  /\ ev.now - ev.pre_conf = 2

\* C5 witness of the rejected case is part of the reachable behaviour too:
\* a change one unit after the last confirmed transition is discarded.
C5_RejectReached ==
  /\ SwitchEvent
  /\ ev.pre_nconf >= 1
  /\ ev.raw # StateChar(ev.pre_state)
  /\ ev.got
  /\ ev.now - ev.pre_conf = 1
  /\ ~ ev.fire
\* The log lines of the latest step, as a set.
Logged == { out[n] : n \in DOMAIN out }

(* C6: For any pin and value, when run_script is called and no file exists
   at <script_dir>/<pin>, it logs a warning, spawns no process, waits for
   none and returns: the monitor goes on with the next table entry, or
   back to poll() after the last one, and the pin stays monitored. *)
C6_MissingScriptIsSkipped ==
  (ev.kind = "event" /\ ev.fire /\ ~ ev.exists) =>
    /\ [lvl |-> "warn", what |-> "missing",
        pin |-> pins[ev.idx].pin, n |-> 0] \in Logged
    /\ ~ ev.forked
    /\ children = {}
    /\ WakeCount("spawn", ev.idx) = 0
    /\ exit_status = -1
    /\ IF ev.idx < num_pins
         THEN pc = "loop" /\ i = ev.idx + 1
         ELSE pc = "poll"
    /\ fd[ev.idx] = "ok"

\* C6 witness: the script of the first table entry is missing while the
\* second entry is ready too; the loop stands at the second entry.
C6_Witness ==
  /\ ev.kind = "event"
  /\ ev.fire
  /\ ~ ev.exists
  /\ ev.idx = 1
  /\ num_pins = 2
  /\ revents[2]
  /\ pc = "loop"
  /\ i = 2

(* C7: A script that exits with a non-zero status or is killed by a signal
   never terminates the monitor and never changes which pins are monitored:
   the step that reaps it writes one warning (with the status,
   respectively the signal number; status 0 writes nothing), leaves the
   descriptors and the pin table alone and continues the for-loop. *)
C7_ScriptFailureIsOnlyLogged ==
  [][ ev'.kind = "reap" =>
        LET st  == ev'.st
            pin == pins[i].pin
        IN  /\ ev'.idx = i
            /\ exit_status' = -1
            /\ fd' = fd
            /\ pins' = pins
            /\ revents' = revents
            /\ IF i < num_pins
                 THEN pc' = "loop" /\ i' = i + 1
                 ELSE pc' = "poll"
            /\ (st.kind = "exited" /\ st.n = 0) => out' = << >>
            /\ (st.kind = "exited" /\ st.n # 0) =>
                 out' = << [lvl |-> "warn", what |-> "status",
                            pin |-> pin, n |-> st.n] >>
            /\ st.kind = "signaled" =>
                 out' = << [lvl |-> "warn", what |-> "signal",
                            pin |-> pin, n |-> st.n] >>
    ]_vars

\* C7 witness: a pin whose script failed earlier is processed again and its
\* script is started again.
C7_Witness ==
  /\ ev.kind = "event"
  /\ ev.idx \in failed
  /\ ev.fire
  /\ ev.forked
  /\ pc = "wait"
  /\ exit_status = -1

(* C8: At most one script is running in every reachable state: a called
   run_script whose script exists spawns at most one child, and the monitor
   is blocked in wait() as long as that child runs; it reads no other pin,
   calls no other script and does not return to poll() meanwhile.  Every
   ready pin of a wake has been processed when poll() is entered again,
   also when fork() failed. *)
C8_OneScriptAtATime ==
  /\ Cardinality(children) <= 1
  /\ children # {} => (pc = "wait" /\ \A c \in children : c.idx = i)
  /\ pc = "wait" => children # {}
  /\ SpawnsAreWaitedFor
  /\ \A k \in Idx : /\ WakeCount("call", k) <= 1
                    /\ WakeCount("spawn", k) <= WakeCount("call", k)
                    /\ WakeCount("exit", k) <= WakeCount("spawn", k)
  /\ (ev.kind = "event" /\ ev.forked) =>
       (Cardinality(children) = 1 /\ pc = "wait" /\ i = ev.idx)
  /\ pc = "poll" =>
       \A k \in Idx : revents[k] => WakeCount("event", k) = 1

\* C8 witness: in one wake the first pin's script was spawned and waited
\* for, then fork() failed for the second pin, and the monitor is back at
\* poll() with no child left.
C8_Witness ==
  /\ pc = "poll"
  /\ ev.kind = "event"
  /\ ev.idx = 2
  /\ ev.fire
  /\ ev.exists
  /\ ~ ev.forked
  /\ WakeCount("spawn", 1) = 1
  /\ WakeCount("exit", 1) = 1
  /\ children = {}

(* C9: When several pins are ready in one wake, their scripts are called in
   the order of the pins' positions in the table, and the script of a later
   entry is not started before the script of every earlier ready entry has
   exited. *)
C9_TableOrder ==
  /\ \A m, n \in DOMAIN wake : m < n => wake[m].idx <= wake[n].idx
  /\ \A n \in DOMAIN wake :
       wake[n].e \in {"call", "spawn"} =>
         \A j \in 1 .. (wake[n].idx - 1) :
           /\ revents[j] =>
                \E m \in 1 .. (n - 1) : wake[m] = [e |-> "event", idx |-> j]
           /\ \A m \in 1 .. (n - 1) :
                wake[m] = [e |-> "spawn", idx |-> j] =>
                  \E x \in (m + 1) .. (n - 1) :
                    wake[x] = [e |-> "exit", idx |-> j]
  /\ \A c \in children : \A j \in 1 .. (c.idx - 1) :
       /\ \A c2 \in children : c2.idx # j
       /\ revents[j] => WakeCount("event", j) = 1

\* C9 witness: table [3, 9], both ready in one wake: 3's script was started
\* and has exited, 9's script is running.
C9_Witness ==
  /\ num_pins = 2
  /\ pins[1].pin = 3
  /\ pins[2].pin = 9
  /\ revents[1]
  /\ revents[2]
  /\ wake = << [e |-> "event", idx |-> 1], [e |-> "call", idx |-> 1],
               [e |-> "spawn", idx |-> 1], [e |-> "exit", idx |-> 1],
               [e |-> "event", idx |-> 2], [e |-> "call", idx |-> 2],
               [e |-> "spawn", idx |-> 2] >>
  /\ pc = "wait"

\* The decimal text of the pin numbers of the tables, written out.
PinText(pin) ==
  CASE pin = 3 -> "3" [] pin = 4 -> "4" [] pin = 9 -> "9" [] pin = 17 -> "17"

(* C10: Every script is started with argv[1] the number of exactly the pin
   that was ready and fired, argv[2] exactly "0" or "1", and argv[0] the
   path <script_dir>/<pin> of that same pin; for a 'switch' pin argv[2] is
   the newly confirmed state. *)
C10_ArgvContract ==
  \A c \in children :
    LET pin == pins[c.idx].pin
    IN  /\ c.idx = i
        /\ revents[c.idx]
        /\ c.pin = pin
        /\ Len(c.argv) = 3
        /\ c.argv[1] = "/etc/gpio-scripts/" \o PinText(pin)
        /\ c.argv[2] = PinText(pin)
        /\ c.argv[3] \in {"0", "1"}
        /\ pins[c.idx].edge = "switch" =>
             /\ c.argv[3] = StateChar(switch_state[c.idx])
             /\ nconf[c.idx] >= 1
             /\ conf_at[c.idx] = down_at[c.idx]
        /\ (ev.kind = "event" /\ ev.forked) =>
             (c.idx = ev.idx /\ c.argv[3] = StateChar(ev.value))

\* C10 witness: the script of 'switch' pin 17 runs for a confirmed release.
C10_Witness ==
  \E c \in children :
    /\ pins[c.idx].edge = "switch"
    /\ c.argv = << "/etc/gpio-scripts/17", "17", "0" >>
    /\ switch_state[c.idx] = 0
(* C11 as stated: a poll() failure for a reason other than interruption is
   reported and ends the process with a non-zero exit status, whereas a
   poll() that fails only because it was interrupted (EINTR) does not end
   the monitor, which goes back to waiting on all pins. *)
C11_InterruptedWaitContinues ==
  ev.kind = "pollfail" =>
    IF ev.raw = "EINTR"
      THEN pc = "poll" /\ exit_status = -1
      ELSE /\ pc = "exited"
           /\ exit_status # 0
           /\ exit_status # -1
           /\ [lvl |-> "perror", what |-> "poll", pin |-> 0, n |-> 0]
                \in Logged
(* C12: If opening a pin's value file or its initial read fails for any pin
   during startup, the whole process exits and poll() is never entered;
   the monitor never waits on a table in which some pin has an invalid
   descriptor. *)
C12_StartupFailureIsFatal ==
  /\ (ev.kind = "open" /\ (fd[ev.idx] # "ok" \/ ~ ev.got)) =>
       (pc = "exited" /\ exit_status # 0 /\ exit_status # -1)
  /\ pc \in {"poll", "loop", "wait"} => \A k \in Idx : fd[k] = "ok"
(* C13: After fork() the child either becomes the script or, when execl()
   fails, ends at once with status 255; it never returns into the
   monitor's code, so no second process executes the wait loop, and the
   parent reports the 255 as a non-zero script exit and continues. *)
C13_ExecFailureEndsChild ==
  /\ \A c \in children : c.image \in {"monitor", "script"}
  /\ Cardinality(children) <= 1
  /\ (ev.kind = "reap" /\ ev.note = "execl") =>
       /\ ev.st = [kind |-> "exited", n |-> 255]
       /\ out = << [lvl |-> "warn", what |-> "status",
                    pin |-> pins[ev.idx].pin, n |-> 255] >>
       /\ children = {}
       /\ exit_status = -1
       /\ IF ev.idx < num_pins
            THEN pc = "loop" /\ i = ev.idx + 1
            ELSE pc = "poll"

\* C13 witness: execl() failed for the first pin's script while the second
\* pin is ready too; the monitor has reported it and stands at the second.
C13_Witness ==
  /\ ev.kind = "reap"
  /\ ev.note = "execl"
  /\ ev.idx = 1
  /\ num_pins = 2
  /\ revents[2]
  /\ pc = "loop"
  /\ i = 2

(* C14: Frame.  The pin table never changes; a step taken at a line whose
   readiness flag is not set reads no value, dispatches nothing and
   changes no switch state; and a step taken at line i leaves the
   switch_state and last_transition_time of every other line as they
   were. *)
C14_Frame ==
  [][ /\ pins' = pins
      /\ (pc = "loop" /\ ~ revents[i]) =>
           /\ valbuf' = valbuf
           /\ src' = src
           /\ children' = children
           /\ wake' = wake
           /\ switch_state' = switch_state
           /\ down_at' = down_at
      /\ \A j \in Idx :
           (pc = "loop" => j # i) =>
             /\ switch_state'[j] = switch_state[j]
             /\ down_at'[j] = down_at[j]
    ]_vars

\* C14 witness: the first line has been processed in a wake in which the
\* second, a switch line latched as pressed, is not ready and is up next.
C14_Witness ==
  /\ ev.kind = "event"
  /\ ev.idx = 1
  /\ pc = "loop"
  /\ i = 2
  /\ num_pins = 2
  /\ ~ revents[2]
  /\ pins[2].edge = "switch"
  /\ nconf[2] >= 1
  /\ switch_state[2] = 1

(* C15: When every spawned handler eventually exits, the monitor is back
   in the blocking wait again and again unless a wait error has ended it,
   and it is back there only when every line marked ready in the wake has
   been processed, once; the only step into the terminated state is a
   wait error taken from the blocking wait; and the monitor leaves the
   wait for a handler only by that handler's end. *)
C15_LoopRunsForever ==
  /\ []<>(pc \in {"poll", "exited"})
  /\ [](pc = "poll" =>
          \A k \in Idx : revents[k] => WakeCount("event", k) = 1)
  /\ [][ (pc' = "exited" /\ pc # "exited")
           => (pc = "poll" /\ ev'.kind = "pollfail") ]_vars
  /\ [][ (pc = "wait" /\ pc' # "wait")
           => (children # {} /\ children' = {} /\ ev'.kind = "reap") ]_vars

\* C15 witness: the monitor is back in the blocking wait after a wake in
\* which a handler was spawned and did not end with exit status 0.
C15_Witness ==
  /\ pc = "poll"
  /\ ev.kind = "reap"
  /\ ev.st # [kind |-> "exited", n |-> 0]
  /\ \E n \in DOMAIN wake : wake[n].e = "spawn"

(* C16: On a 'switch' line the values of successive fired events strictly
   alternate and begin with 1: a fired event carries 1 when the line has
   not fired before, and otherwise the opposite of the value the line
   fired last. *)
C16_FiredValuesAlternate ==
  (SwitchEvent /\ ev.fire) =>
    ev.value = (IF ev.pre_last = 0 - 1 THEN 1 ELSE 1 - ev.pre_last)

\* C16 witness: a 'switch' line that fired 1 before fires 0.
C16_Witness ==
  /\ SwitchEvent
  /\ ev.fire
  /\ ev.pre_last = 1
  /\ ev.value = 0

(* C17 as stated: on a 'switch' line, once every readiness event has been
   processed (the monitor is back in the blocking wait), the latest read
   of the line returned its level, and more than the debounce window has
   passed since the line's latest confirmed transition, the confirmed
   state equals that level. *)
C17_FinalLevelIsConfirmed ==
  \A k \in Idx :
    ( /\ pc = "poll"
      /\ pins[k].edge = "switch"
      /\ nconf[k] >= 1
      /\ line[k] \in {"0", "1"}
      /\ clock - conf_at[k] > DebounceWindow )
    => StateChar(switch_state[k]) = line[k]

(* C17 amended: the confirmed state of a 'switch' line is brought in line
   with the level read only by an event processed when more than the
   debounce window has passed since the stored last_transition_time; an
   event processed inside the window leaves the confirmed state as it
   was, whatever level was read, so a change suppressed there stays
   unreported until a later event of the line. *)
C17_LevelConfirmedOnlyOutsideWindow ==
  SwitchEvent =>
    IF ev.now - ev.pre_down > DebounceWindow
      THEN ev.raw \in {"0", "1"} =>
             StateChar(switch_state[ev.idx]) = ev.raw
      ELSE switch_state[ev.idx] = ev.pre_state

\* C17 witness: a release read from a pressed 'switch' line inside the
\* window of its confirmed press has been processed and suppressed.
C17_Witness ==
  /\ SwitchEvent
  /\ ev.got
  /\ ev.raw = "0"
  /\ ev.pre_state = 1
  /\ ev.pre_nconf >= 1
  /\ ~ (ev.now - ev.pre_down > DebounceWindow)
  /\ switch_state[ev.idx] = 1
  /\ ~ ev.fire

(* C18 as stated: whenever a handler is run for a ready line, the value
   that decided it and is handed to it was read from that line's own
   value file in this wake, the case of a read that returns no data
   included. *)
C18_ValueIsFromThisLine ==
  (ev.kind = "event" /\ ev.fire) => (ev.got /\ src = ev.idx)

(* C19: On a 'switch' line the confirmed state and last_transition_time
   change only in the step that confirms a transition, and there once, to
   the fired value and the time of the event: they are set when the
   handler is called, whether its file is missing, fork() fails or a
   child runs, and no later step of the handler (exec, exit, signal)
   touches them. *)
C19_StateSetOnceWhateverTheHandler ==
  /\ [](( SwitchEvent /\ ev.fire ) =>
          /\ switch_state[ev.idx] = ev.value
          /\ ev.pre_state # ev.value
          /\ down_at[ev.idx] = ev.now
          /\ ev.now - ev.pre_down > DebounceWindow)
  /\ [][ \A k \in Idx :
           ( switch_state'[k] # switch_state[k] \/ down_at'[k] # down_at[k] )
             => ( /\ ev'.kind = "event"
                  /\ ev'.idx = k
                  /\ ev'.fire
                  /\ pins[k].edge = "switch"
                  /\ pc = "loop" ) ]_vars

\* C19 witness: a 'switch' line whose handler for the press was killed or
\* failed confirms the release although the handler file is now missing.
C19_Witness ==
  /\ SwitchEvent
  /\ ev.fire
  /\ ev.value = 0
  /\ ~ ev.exists
  /\ ev.idx \in failed
  /\ switch_state[ev.idx] = 0
  /\ down_at[ev.idx] = clock

(* C20 as stated: the monitor is in its wait loop (blocked in poll(),
   going through the lines, or waiting for a handler) only with a
   non-empty pin table. *)
C20_WaitLoopHasLines ==
  pc \in {"poll", "loop", "wait"} => num_pins > 0
====
